---- MODULE Spec2Model ----
(***************************************************************************)
(* Turn routing and clarification resumption of the ThesisMate             *)
(* orchestrator (src/src/orchestrator/orchestrator.py) and the gating      *)
(* contract of its five agents (src/src/agents/*.py).                      *)
(*                                                                         *)
(* Texts are sequences of tokens; None and "" (both falsy, never told      *)
(* apart by the orchestrator) are the empty sequence.  A UserContext is a  *)
(* mutable object: `context` is the object held by the graph state,        *)
(* `aliased` says whether it is the very object stored in user_contexts,   *)
(* so that in-place writes reach the stored context as they do in Python.  *)
(***************************************************************************)
EXTENDS Integers, Sequences, FiniteSets, TLC

\* ---------------------------------------------------------------- bounds
MaxTurns == 2

\* ------------------------------------------------------ program constants
\* supersteps CompiledGraph.invoke runs before it raises GraphRecursionError
RecursionLimit == 25
Users == {"default"}

Handlers == {"topic_scout", "research_agent", "structure_agent",
             "writing_assistant", "reviewer_agent"}

\* the user's messages: an empty one, and one without and one with the word
\* the reviewer agent looks for
Queries == {<<>>, <<"hello">>, <<"review">>}

\* ------------------------------------------------------------------ texts
Truthy(text) == text # <<>>

Or(a, b) == IF Truthy(a) THEN a ELSE b

\* variant: the new message first, the original request after it
Enrich_message_first(pending_request, current_user_input) ==
    <<"Original request:">> \o current_user_input
        \o <<"User's additional info:">> \o pending_request

\* f"Original request: {P}\nUser's additional info: {M}"
Enrich(pending_request, current_user_input) ==
    <<"Original request:">> \o pending_request
        \o <<"User's additional info:">> \o current_user_input

Human(text) == [role |-> "human", content |-> text]
AI(text) == [role |-> "ai", content |-> text]

\* operator.add on the messages channel.  The last two messages are kept,
\* and of an assistant message that is no longer the last only its role:
\* the code's own decisions read messages[-1], whether messages[-2] is the
\* user's, and whether there is more than one message; everything else
\* reaches only the prompt of the routing classifier, whose answer is
\* arbitrary here.
Older(m) == IF m.role = "ai" THEN AI(<<>>) ELSE m

AddMessage(msgs, m) ==
    IF msgs = <<>> THEN <<m>> ELSE <<Older(msgs[Len(msgs)]), m>>

\* ---------------------------------------------------------------- context
\* UserContext: the fields the routing protocol and the agents' gates read.
\* research_summaries, background, constraints, topic, writing_style and
\* guardrails are written but never read by a decision and are left out.
UserContext(f, i) ==
    [field |-> f, interests |-> i, working_title |-> "",
     latest_outline |-> "",
     pending_agent |-> "", pending_request |-> <<>>, enriched_input |-> <<>>]

\* UserContext()
EmptyContext == UserContext("", <<>>)

\* -------------------------------------------------------------- responses
\* AgentResponse; updated_context is "none" (None), "same" (the context
\* object that was passed in) or "new" (a fresh UserContext, in new_context)
AgentResponse(ok, name, instr, msg, upd, ctx) ==
    [success |-> ok, agent_name |-> name, instructions |-> instr,
     user_message |-> msg, updated_context |-> upd, new_context |-> ctx,
     capability_assessment |-> "none"]

\* a response that carries the assessment it was decided on
WithAssessment(resp, can_handle) ==
    [resp EXCEPT !.capability_assessment =
                    IF can_handle THEN "can handle" ELSE "cannot handle"]

NoResponse == AgentResponse(FALSE, "", <<>>, <<>>, "none", EmptyContext)

\* what a process_request call leaves behind: the response (or raised), and
\* the value of the context object it was given after its in-place writes
\* extracted: the items topic_scout's extraction found in the input
NoExtraction == [field |-> FALSE, interests |-> FALSE]

Outcome(resp, ctx) ==
    [raised |-> FALSE, response |-> resp, context |-> ctx,
     extracted |-> NoExtraction]

Raised(ctx) ==
    [raised |-> TRUE, response |-> NoResponse, context |-> ctx,
     extracted |-> NoExtraction]

\* replies of the text-generation service to a YES/NO capability prompt:
\* the call fails, or the reply contains some of the words YES and NO
AssessReplies ==
    {[failed |-> TRUE, words |-> {}]}
        \cup {[failed |-> FALSE, words |-> w] : w \in SUBSET {"YES", "NO"}}

\* can_handle of the YES/NO assessments (topic_scout, structure_agent)
YesNoCanHandle(reply) ==
    IF reply.failed THEN TRUE
    ELSE IF "YES" \in reply.words THEN TRUE
    ELSE IF "NO" \in reply.words THEN FALSE
    ELSE TRUE

\* ------------------------------------------------------------ topic_scout
Fields == {"", "CS"}
InterestLists == {<<>>, <<"AI">>}

\* what the extraction call yields: nothing usable, or a field / interests
Extractions ==
    {[usable |-> FALSE, field |-> "", interests |-> <<>>]}
        \cup {[usable |-> TRUE, field |-> f, interests |-> i] :
                f \in Fields, i \in InterestLists}

\* existing + [i for i in extracted if i not in existing]
MergeInterests(existing, extracted) ==
    LET known(x) == \E k \in 1..Len(existing) : existing[k] = x
        fresh(x) == ~known(x)
    IN  existing \o SelectSeq(extracted, fresh)

\* variant: the new context is built from the extraction alone
TopicScout_update_context_from_input_forgets(ex, context) ==
    IF ~ex.usable THEN [same |-> TRUE, context |-> context]
    ELSE IF ex.field # context.field \/ ex.interests # context.interests
    THEN [same |-> FALSE, context |-> UserContext(ex.field, ex.interests)]
    ELSE [same |-> TRUE, context |-> context]

\* returns [same |-> the argument object is returned, context |-> value]
TopicScout_update_context_from_input(ex, context) ==
    IF ~ex.usable THEN [same |-> TRUE, context |-> context]
    ELSE
    LET new_field == IF ex.field # "" THEN ex.field ELSE context.field
        new_interests ==
            IF ex.interests # <<>>
            THEN IF context.interests # <<>>
                 THEN MergeInterests(context.interests, ex.interests)
                 ELSE ex.interests
            ELSE context.interests
    IN  IF new_field # context.field \/ new_interests # context.interests
        THEN [same |-> FALSE, context |-> UserContext(new_field, new_interests)]
        ELSE [same |-> TRUE, context |-> context]

\* variant: a field alone is enough
TopicScout_has_enough_info_field_only(context) ==
    context.field # ""

TopicScout_has_enough_info(context) ==
    context.field # "" /\ context.interests # <<>>

\* variant: interests are asked for before the field
TopicScout_get_next_question_interests_first(context) ==
    IF context.interests = <<>>
    THEN <<"topic_scout", "What specific areas interest you most?">>
    ELSE IF context.field = ""
    THEN <<"topic_scout", "What field are you studying?">>
    ELSE <<"topic_scout", "Could you tell me more?">>

TopicScout_get_next_question(context) ==
    IF context.field = "" THEN <<"topic_scout", "What field are you studying?">>
    ELSE IF context.interests = <<>>
    THEN <<"topic_scout", "What specific areas interest you most?">>
    ELSE <<"topic_scout", "Could you tell me more?">>

GenerationResults == {"topics", "no topics", "raises"}

\* what the calls of topic_scout to the service yield
TopicScoutInputs ==
    [ex : Extractions, reply : AssessReplies, gen : GenerationResults]

\* process_request of topic_scout when its calls yield t
TopicScout_process_request_on(t, user_input, context) ==
      LET ex == t.ex
          reply == t.reply
          gen == t.gen
          up == TopicScout_update_context_from_input(ex, context)
          upd == IF up.same THEN "same" ELSE "new"
          out ==
              IF ~YesNoCanHandle(reply)
              THEN Outcome(WithAssessment(
                             AgentResponse(FALSE, "topic_scout", <<>>,
                               <<"topic_scout", "I don't think I can help">>,
                               "none", EmptyContext), FALSE), context)
              ELSE IF ~TopicScout_has_enough_info(up.context)
              THEN Outcome(AgentResponse(FALSE, "topic_scout", <<"ask_user">>,
                             TopicScout_get_next_question(up.context),
                             upd, up.context), context)
              ELSE IF gen = "raises"
              THEN Outcome(AgentResponse(FALSE, "topic_scout", <<>>,
                             <<"topic_scout", "I encountered an error">>,
                             "none", EmptyContext), context)
              ELSE IF gen = "no topics"
              THEN Outcome(AgentResponse(FALSE, "topic_scout", <<>>,
                             <<"topic_scout", "I couldn't generate suitable topics">>,
                             upd, up.context), context)
              ELSE Outcome(AgentResponse(TRUE, "topic_scout", <<>>,
                             <<"topic_scout", "topics">>, upd, up.context), context)
      IN  [out EXCEPT !.extracted =
                 [field |-> ex.usable /\ ex.field # "",
                  interests |-> ex.usable /\ ex.interests # <<>>]]

TopicScout_process_request(user_input, context) ==
    { TopicScout_process_request_on(t, user_input, context) :
        t \in TopicScoutInputs }

\* --------------------------------------------------------- research_agent
\* confidence in tenths
ResearchAssessment(can, conf, missing, questions) ==
    [can_handle |-> can, confidence |-> conf, missing_info |-> missing,
     suggested_questions |-> questions]

\* keyword fallback when the service's reply is not JSON
Research_fallback_assessment(has_research_keywords) ==
    IF has_research_keywords THEN ResearchAssessment(TRUE, 7, <<>>, <<>>)
    ELSE ResearchAssessment(FALSE, 2, <<>>, <<>>)

\* assessments the service's JSON reply can carry
ResearchJson ==
    { ResearchAssessment(can, conf, missing, qs) :
        can \in BOOLEAN, conf \in {5, 9}, missing \in {<<>>, <<"topic">>},
        qs \in {<<>>, <<"q1">>, <<"q1", "q2">>} }

\* the assessment call of research_agent: the service fails, or replies
\* with JSON, or with a text that is no JSON; keywords says whether the
\* user input holds one of the research keywords of the fallback
ResearchReplies ==
    {[failed |-> TRUE, json |-> FALSE, keywords |-> FALSE,
      assessment |-> ResearchAssessment(FALSE, 0, <<>>, <<>>)]}
        \cup {[failed |-> FALSE, json |-> TRUE, keywords |-> FALSE,
                assessment |-> a] : a \in ResearchJson}
        \cup {[failed |-> FALSE, json |-> FALSE, keywords |-> kw,
                assessment |-> ResearchAssessment(FALSE, 0, <<>>, <<>>)] :
                kw \in BOOLEAN}

\* can_handle_request of research_agent
Research_can_handle_request(reply) ==
    IF reply.failed THEN ResearchAssessment(FALSE, 0, <<>>, <<>>)
    ELSE IF reply.json THEN reply.assessment
    ELSE Research_fallback_assessment(reply.keywords)

\* what can_handle_request can return: the parsed JSON of the service, the
\* keyword fallback, or the rejection of its except branch
ResearchAssessments ==
    { Research_can_handle_request(reply) : reply \in ResearchReplies }

\* one ask_user instruction per suggested question
AskUserForEach(questions) == [k \in 1..Len(questions) |-> "ask_user"]

ResearchResults == {"papers", "no papers", "raises"}

\* replies of the service to the clarification prompt (temperature 0.3):
\* the call fails, or returns a question it phrased
ClarificationReplies ==
    {[failed |-> TRUE, text |-> <<>>]}
        \cup {[failed |-> FALSE, text |-> <<"research_agent", t>>] :
                t \in {"What specific topic?", "Which subject?"}}

\* replies of the service to the sufficiency prompt: the call fails, or the
\* upper-cased reply holds these of the phrases the code looks for
\* ("NOT ENOUGH" holds "ENOUGH")
EnoughReplies ==
    {[failed |-> TRUE, phrases |-> {}]}
        \cup {[failed |-> FALSE, phrases |-> ph] :
                ph \in {{}, {"ENOUGH"}, {"ENOUGH", "NOT ENOUGH"}}}

Research_has_enough_research_info(reply) ==
    IF reply.failed THEN FALSE
    ELSE "ENOUGH" \in reply.phrases /\ "NOT ENOUGH" \notin reply.phrases

Research_get_research_clarification_question(reply) ==
    IF reply.failed
    THEN <<"research_agent", "What specific topic would you like me to research?">>
    ELSE IF Truthy(reply.text) THEN reply.text
    ELSE <<"research_agent",
           "What specific topic would you like me to research? (e.g.)">>

Research_process_request(user_input, context) ==
    LET respond(ok, instr, msg) ==
            Outcome(AgentResponse(ok, "research_agent", instr,
                      <<"research_agent", msg>>, "none", EmptyContext),
                    context)
        assessed(o, can) == [o EXCEPT !.response = WithAssessment(@, can)]
        after_check(a, e) ==
            IF ~Research_has_enough_research_info(e)
            THEN { Outcome(AgentResponse(FALSE, "research_agent",
                             <<"ask_user">>,
                             Research_get_research_clarification_question(q),
                             "none", EmptyContext), context) :
                     q \in ClarificationReplies }
            ELSE IF a.confidence < 7 \/ a.missing_info # <<>>
            THEN { assessed(respond(FALSE,
                              AskUserForEach(a.suggested_questions),
                              "I need more specific information"), TRUE) }
            ELSE { IF res = "papers" THEN respond(TRUE, <<>>, "papers")
                   ELSE IF res = "no papers"
                   THEN respond(FALSE, <<>>, "I couldn't find any papers")
                   ELSE respond(FALSE, <<>>, "I encountered an error") :
                     res \in ResearchResults }
    IN  UNION { IF ~a.can_handle
                THEN { assessed(respond(FALSE, <<>>,
                                  "I don't think I'm the right agent"), FALSE) }
                ELSE UNION { after_check(a, e) : e \in EnoughReplies }
              : a \in ResearchAssessments }

\* -------------------------------------------------------- structure_agent
\* writes working_title into the context object it was given; title_found
\* is what the title patterns find in the input (nothing in an empty input)
Structure_update_context_from_input(user_input, title_found, context) ==
    IF context.working_title # "" THEN context
    ELSE IF title_found /\ Truthy(user_input)
    THEN [context EXCEPT !.working_title = "T"]
    ELSE context

Structure_has_enough_info(ctx) == ctx.working_title # ""

Structure_get_next_question(ctx) ==
    IF ctx.working_title = ""
    THEN <<"structure_agent", "What is your working title?">>
    ELSE <<>>

Structure_process_request(user_input, context) ==
    { LET updated_ctx ==
              Structure_update_context_from_input(user_input, found, context)
      IN  IF ~YesNoCanHandle(reply)
          THEN Outcome(WithAssessment(
                         AgentResponse(FALSE, "structure_agent", <<>>,
                           <<"structure_agent", "I can't help with this request">>,
                           "same", updated_ctx), FALSE), updated_ctx)
          ELSE IF ~Structure_has_enough_info(updated_ctx)
          THEN Outcome(AgentResponse(FALSE, "structure_agent", <<"ask_user">>,
                         Structure_get_next_question(updated_ctx),
                         "same", updated_ctx), updated_ctx)
          ELSE IF gen = "raises"
          THEN Outcome(AgentResponse(FALSE, "structure_agent", <<>>,
                         <<"structure_agent", "An error occurred">>,
                         "same", updated_ctx), updated_ctx)
          ELSE Outcome(AgentResponse(TRUE, "structure_agent", <<>>,
                         <<"structure_agent", "outline">>,
                         "same", updated_ctx), updated_ctx)
      : found \in BOOLEAN, reply \in AssessReplies,
        gen \in {"outline", "raises"} }

\* ------------------------------------------------------ writing_assistant
\* what the patterns of the writing agent find in the input, and whether the
\* style store, the text generation and the passage store work
WritingInputs ==
    [style_cmd : {"none", "ok", "bad"}, create_outline : BOOLEAN,
     loose_target : BOOLEAN, target : BOOLEAN, seeds : BOOLEAN,
     io : {"ok", "raises"}]

\* an empty input matches none of the patterns
WritingInputsOf(user_input) ==
    IF Truthy(user_input) THEN WritingInputs
    ELSE { w \in WritingInputs :
             /\ w.style_cmd = "none" /\ ~w.create_outline
             /\ ~w.loose_target /\ ~w.target /\ ~w.seeds }

Writing_ask(msg, context) ==
    Outcome(AgentResponse(FALSE, "writing_assistant", <<"ask_user">>,
              <<"writing_assistant", msg>>, "same", context), context)

\* process_request of writing_assistant when the patterns find w in the
\* input; storage is the latest outline of the artifact store ("" when none)
Writing_process_request_on(w, user_input, context, storage) ==
      IF w.style_cmd = "ok"
      THEN IF w.io = "raises" THEN Raised(context)
           ELSE Outcome(AgentResponse(TRUE, "writing_assistant", <<>>,
                          <<"writing_assistant", "style">>,
                          "none", EmptyContext), context)
      ELSE IF w.style_cmd = "bad"
      THEN Outcome(AgentResponse(FALSE, "writing_assistant", <<>>,
                     <<"writing_assistant", "unknown style">>,
                     "none", EmptyContext), context)
      ELSE
      LET c1 == IF context.latest_outline = "" /\ storage # ""
                THEN [context EXCEPT !.latest_outline = storage]
                ELSE context
      IN  IF c1.latest_outline = "" /\ w.create_outline
          THEN Writing_ask("I am forwarding to the outline creation",
                   [c1 EXCEPT !.pending_agent = "structure_agent",
                              !.pending_request = <<"create outline">>])
          ELSE IF c1.latest_outline = "" /\ ~w.loose_target
          THEN Writing_ask("I need a target in your thesis", c1)
          ELSE
          LET c2 == IF c1.latest_outline = ""
                    THEN [c1 EXCEPT !.latest_outline = "outline"]
                    ELSE c1
          IN  IF ~w.target
              THEN Writing_ask("Which section should I write for?", c2)
              ELSE IF ~w.seeds
              THEN Writing_ask("Please send keywords or a draft", c2)
              ELSE IF w.io = "raises" THEN Raised(c2)
              ELSE Outcome(AgentResponse(TRUE, "writing_assistant", <<>>,
                             <<"writing_assistant", "paragraph">>,
                             "same", c2), c2)

Writing_process_request(user_input, context, storage) ==
    { Writing_process_request_on(w, user_input, context, storage) :
        w \in WritingInputsOf(user_input) }

\* --------------------------------------------------------- reviewer_agent
ReviewModes == {"none", "inline empty", "inline", "all, nothing saved",
                "all", "section missing", "section"}

ReviewInputs == [mode : ReviewModes, llm : {"ok", "raises"}]

\* reviewer.py 36-45: the word the capability check looks for
ReviewIntent(user_input) ==
    \E k \in 1..Len(user_input) : user_input[k] = "review"

Reviewer_update_context_from_input_basic(context, storage) ==
    IF context.latest_outline = "" /\ storage # ""
    THEN [context EXCEPT !.latest_outline = storage]
    ELSE context

Reviewer_respond(ok, instr, msg, ctx) ==
    Outcome(AgentResponse(ok, "reviewer_agent", instr,
              <<"reviewer_agent", msg>>, "same", ctx), ctx)

Reviewer_process_request(user_input, context, storage) ==
    { LET updated_ctx ==
              Reviewer_update_context_from_input_basic(context, storage)
      IN  IF ~ReviewIntent(user_input)
          THEN LET o == Reviewer_respond(FALSE, <<>>, "I can't help with this",
                                         updated_ctx)
               IN  [o EXCEPT !.response = WithAssessment(@, FALSE)]
          ELSE IF r.mode = "none"
          THEN Reviewer_respond(FALSE, <<"ask_user">>, "What should I review?",
                             updated_ctx)
          ELSE IF r.mode = "inline empty"
          THEN Reviewer_respond(FALSE, <<"ask_user">>,
                             "Please append the text", updated_ctx)
          ELSE IF r.mode = "all, nothing saved"
          THEN Reviewer_respond(FALSE, <<"ask_user">>,
                             "I couldn't find any saved sections", updated_ctx)
          ELSE IF r.mode = "section missing"
          THEN Reviewer_respond(FALSE, <<"ask_user">>,
                             "No saved section found", updated_ctx)
          ELSE IF r.llm = "raises"
          THEN Reviewer_respond(FALSE, <<>>, "An error occurred", updated_ctx)
          ELSE Reviewer_respond(TRUE, <<>>, "review", updated_ctx)
      : r \in ReviewInputs }

\* ------------------------------------------------- the agents, by name
\* the latest outline the artifact store holds ("" when none): the store
\* is a directory outside the program and holds anything at any time
Storages == {"", "outline"}

AgentProcessRequest(agent_name, user_input, ctx, store) ==
    CASE agent_name = "topic_scout" ->
             TopicScout_process_request(user_input, ctx)
      [] agent_name = "research_agent" ->
             Research_process_request(user_input, ctx)
      [] agent_name = "structure_agent" ->
             Structure_process_request(user_input, ctx)
      [] agent_name = "writing_assistant" ->
             Writing_process_request(user_input, ctx, store)
      [] agent_name = "reviewer_agent" ->
             Reviewer_process_request(user_input, ctx, store)

\* The router passes an agent's text through without reading it; the texts
\* are kept by what they say.  No agent answers with an empty text.
Says(response) ==
    IF response.user_message = <<>> THEN <<>>
    ELSE IF response.success THEN <<"result">>
    ELSE IF response.instructions # <<>> THEN <<"question">>
    ELSE IF response.capability_assessment = "cannot handle"
    THEN <<"refusal">>
    ELSE <<"failure">>

\* what a node gets back from agent.process_request(input, context): the
\* response, and the context object with what the agent wrote into it
ProcessRequestObserved(agent_name, user_input, ctx) ==
    { [o EXCEPT !.response.user_message = Says(o.response)] :
        o \in UNION { AgentProcessRequest(agent_name, user_input, ctx, st) :
                      st \in Storages } }

\* the same, without the record of what the agent extracted: the router
\* has no part in it
ProcessRequest(agent_name, user_input, ctx) ==
    { [o EXCEPT !.extracted = NoExtraction] :
        o \in ProcessRequestObserved(agent_name, user_input, ctx) }

\* ------------------------------------------------------------ orchestrator
VARIABLES
    user_contexts,  \* Orchestrator.user_contexts: user_id -> stored context
    pc,             \* "idle", the graph node to run next, or "END"
    user_id,        \* AgentState.user_id of the running turn
    query,          \* the turn's HumanMessage
    messages,       \* AgentState.messages (trailing window)
    context,        \* AgentState.context
    aliased,        \* AgentState.context is the object in user_contexts
    next_agent,     \* AgentState.next_agent
    step,           \* supersteps the graph has run in this turn
    returned,       \* what the running turn's run() returned
    turns,          \* run() calls so far
    h_pending,      \* history: the pending marker the turn started with,
                    \*   kept until its first handler's answer is routed
    h_consulted,    \* history: the routing classifier was consulted in
                    \*   the turn
    h_count,        \* history: handler invocations of the turn
    h_last,         \* history: the latest handler invocation of the turn,
                    \*   kept until the supervisor routes to another handler
    h_success,      \* history: a handler of the turn returned success
    h_end,          \* history: how the turn's run() ended
    h_chain,        \* history: the user's messages since the request that
                    \*   the pending handler first asked about, each with
                    \*   the context stored when it came (kept in the
                    \*   clarification sessions only)
    h_outlined,     \* history: structure_agent has returned an outline in
                    \*   the session (kept in the clarification sessions
                    \*   only)
    call,           \* the agent or routing function called on its own,
                    \*   with its arguments and what it returned
    files,          \* the artifact store under data/thesis: path -> the
                    \*   blocks of content the file holds, in order
    saves,          \* save_outline and save_passage calls so far
    h_written,      \* history: the contents that the save calls wrote
    objs,           \* the UserContext objects of overlapping run() calls:
                    \*   the value of each and, as history, the number of
                    \*   the question whose pending marker it holds
    session,        \* user_contexts["default"] of the overlapping calls:
                    \*   an index of objs, 0 when the key is absent
    runs,           \* executor thread -> the run() call it is in
    begun,          \* overlapping run() calls begun so far
    h_asks,         \* history: questions asked by the overlapping calls
    h_stale,        \* history: a run() stored its context over the one
                    \*   that another run() stored while it was running
    collected_papers,
                    \* ResearchAgent.collected_papers of the one
                    \*   research_agent of the Orchestrator
    research,       \* session key -> the research turn its run() is in
    summaries,      \* session key -> research_summaries of the context
                    \*   stored under the key
    researched      \* research turns begun so far

vars == <<user_contexts, pc, user_id, query, messages, context,
          aliased, next_agent, step, returned, turns,
          h_pending, h_consulted, h_count, h_last, h_success, h_end,
          h_chain, h_outlined, call, files, saves, h_written,
          objs, session, runs, begun, h_asks, h_stale,
          collected_papers, research, summaries, researched>>

\* the state of the artifact store
store_vars == <<files, saves, h_written>>

\* what the orchestrator and the functions called on their own leave alone
\* the state of the run() calls that overlap in the executor's threads
overlap_vars == <<objs, session, runs, begun, h_asks, h_stale>>

\* the state of the research turns of two sessions
research_vars == <<collected_papers, research, summaries, researched>>

aside_vars == <<store_vars, overlap_vars, research_vars>>

\* the user_id values of two sessions
SessionKeys == {"A", "B"}

\* a session with no research turn under way: research_agent's answer and
\* research_summaries of the turn's context (empty for None)
IdleResearch ==
    [pc |-> "idle", topic |-> "", success |-> FALSE, result |-> <<>>,
     research_summaries |-> <<>>]

\* replies of the routing classifier: chat_completion returns the stripped,
\* non-empty content or raises
RoutingReplies ==
    {"topic_scout", "RESEARCH_AGENT", "Structure_Agent", "writing_assistant",
     "reviewer_agent", "END", "end", "general", "topic_scout."}

RoutingAnswers ==
    {[failed |-> TRUE, text |-> ""]}
        \cup {[failed |-> FALSE, text |-> r] : r \in RoutingReplies}

\* str.upper on the replies above
Upper(r) ==
    CASE r \in {"topic_scout", "TOPIC_SCOUT"} -> "TOPIC_SCOUT"
      [] r \in {"RESEARCH_AGENT", "research_agent"} -> "RESEARCH_AGENT"
      [] r \in {"Structure_Agent", "structure_agent"} -> "STRUCTURE_AGENT"
      [] r \in {"writing_assistant"} -> "WRITING_ASSISTANT"
      [] r \in {"reviewer_agent"} -> "REVIEWER_AGENT"
      [] r \in {"END", "end"} -> "END"
      [] r = "general" -> "GENERAL"
      [] r = "topic_scout." -> "TOPIC_SCOUT."
      [] OTHER -> r

\* str.lower on the valid choices
Lower(r) ==
    CASE r = "TOPIC_SCOUT" -> "topic_scout"
      [] r = "RESEARCH_AGENT" -> "research_agent"
      [] r = "STRUCTURE_AGENT" -> "structure_agent"
      [] r = "WRITING_ASSISTANT" -> "writing_assistant"
      [] r = "REVIEWER_AGENT" -> "reviewer_agent"
      [] OTHER -> r

valid_choices ==
    {"TOPIC_SCOUT", "RESEARCH_AGENT", "STRUCTURE_AGENT", "WRITING_ASSISTANT",
     "REVIEWER_AGENT", "END"}

\* the user input the supervisor sees: the last message if it is the
\* user's, else the one before it if that is the user's
CurrentUserInput(msgs) ==
    IF msgs = <<>> THEN <<>>
    ELSE IF msgs[Len(msgs)].role = "human" THEN msgs[Len(msgs)].content
    ELSE IF Len(msgs) > 1 /\ msgs[Len(msgs) - 1].role = "human"
    THEN msgs[Len(msgs) - 1].content
    ELSE <<>>

\* variant: the classifier's answer is taken without the valid_choices test
Classified_unvalidated(answer) ==
    IF ~answer.failed
    THEN IF Upper(answer.text) # "END"
         THEN Lower(Upper(answer.text)) ELSE "END"
    ELSE "topic_scout"

\* the decision taken on the classifier's answer alone
Classified(answer) ==
    IF ~answer.failed /\ Upper(answer.text) \in valid_choices
    THEN IF Upper(answer.text) # "END"
         THEN Lower(Upper(answer.text)) ELSE "END"
    ELSE "topic_scout"

\* variant: the pending marker is not looked at before the classifier
MakeRoutingDecision_classifies_first(msgs, ctx, answer) ==
    [decision |-> Classified(answer), context |-> ctx, consulted |-> TRUE]

\* decision, the context object after the in-place writes, and whether the
\* classifier was consulted
MakeRoutingDecision(msgs, ctx, answer) ==
    IF ctx.pending_agent # ""
    THEN [decision |-> ctx.pending_agent,
          context |->
            [ctx EXCEPT !.enriched_input =
                            IF Truthy(ctx.pending_request)
                            THEN Enrich(ctx.pending_request,
                                        CurrentUserInput(msgs))
                            ELSE @,
                        !.pending_agent = "",
                        !.pending_request = <<>>],
          consulted |-> FALSE]
    ELSE [decision |-> Classified(answer),
          context |-> ctx,
          consulted |-> TRUE]

\* variant: the supervisor looks at pending_request
SupervisorEnds_on_request(msgs, ctx) ==
    Truthy(ctx.pending_request) /\ Len(msgs) > 1

\* a supervisor that has a pending marker after a handler ran ends the turn
SupervisorEnds(msgs, ctx) == ctx.pending_agent # "" /\ Len(msgs) > 1

\* variant: the enriched input stays in the context after the read
GetInputToProcess_kept(last_message, ctx) ==
    IF Truthy(ctx.enriched_input)
    THEN [input |-> ctx.enriched_input, context |-> ctx]
    ELSE [input |-> last_message, context |-> ctx]

\* input handed to the agent, and the context object after the read
GetInputToProcess(last_message, ctx) ==
    IF Truthy(ctx.enriched_input)
    THEN [input |-> ctx.enriched_input,
          context |-> [ctx EXCEPT !.enriched_input = <<>>]]
    ELSE [input |-> last_message, context |-> ctx]

\* str.title of the node names
Title(agent_name) ==
    CASE agent_name = "topic_scout" -> "Topic_Scout"
      [] agent_name = "research_agent" -> "Research_Agent"
      [] agent_name = "structure_agent" -> "Structure_Agent"
      [] agent_name = "writing_assistant" -> "Writing_Assistant"
      [] agent_name = "reviewer_agent" -> "Reviewer_Agent"
      [] OTHER -> agent_name

\* variant: every unsuccessful response counts as a question
NeedsMoreInformation_any_failure(response) == ~response.success

\* line 371: the response asks the user for more information
NeedsMoreInformation(response) ==
    ~response.success /\ response.instructions # <<>>

\* variant: an updated_context handed back by the agent is taken as it is
HandleAgentResponse_replacement_unmarked(response, ctx, agent_name, original_input) ==
    LET asks == NeedsMoreInformation(response)
        c1 == [ctx EXCEPT
                 !.pending_agent = IF asks THEN agent_name ELSE "",
                 !.pending_request = IF asks THEN original_input ELSE <<>>]
    IN  [message |-> Or(response.user_message,
                        IF asks THEN <<"I need more information.">>
                        ELSE <<Title(agent_name), "completed the task.">>),
         context |-> IF response.updated_context = "new"
                     THEN response.new_context ELSE c1,
         replaced |-> response.updated_context = "new",
         inplace |-> c1]

\* variant: a question stores the pending handler without its request
HandleAgentResponse_request_dropped(response, ctx, agent_name, original_input) ==
    LET asks == NeedsMoreInformation(response)
        c1 == [ctx EXCEPT
                 !.pending_agent = IF asks THEN agent_name ELSE "",
                 !.pending_request = <<>>]
    IN  [message |-> Or(response.user_message,
                        IF asks THEN <<"I need more information.">>
                        ELSE <<Title(agent_name), "completed the task.">>),
         context |-> IF response.updated_context = "new"
                     THEN [response.new_context EXCEPT
                             !.pending_agent = c1.pending_agent]
                     ELSE c1,
         replaced |-> response.updated_context = "new",
         inplace |-> c1]

\* the node's state update: the AIMessage, the context put into the graph
\* state, whether that is another object than the one passed in, and the
\* passed-in object after the in-place writes
HandleAgentResponse(response, ctx, agent_name, original_input) ==
    IF NeedsMoreInformation(response)
    THEN LET c1 == [ctx EXCEPT !.pending_agent = agent_name,
                               !.pending_request = original_input]
         IN  [message |-> Or(response.user_message,
                             <<"I need more information.">>),
              context |->
                IF response.updated_context = "new"
                THEN [response.new_context EXCEPT
                        !.pending_agent = agent_name,
                        !.pending_request = original_input]
                ELSE c1,
              replaced |-> response.updated_context = "new",
              inplace |-> c1]
    ELSE LET c1 == [ctx EXCEPT !.pending_agent = "",
                               !.pending_request = <<>>]
         IN  [message |-> Or(response.user_message,
                             <<Title(agent_name), "completed the task.">>),
              context |->
                IF response.updated_context = "new"
                THEN [response.new_context EXCEPT
                        !.pending_agent = "", !.pending_request = <<>>]
                ELSE c1,
              replaced |-> response.updated_context = "new",
              inplace |-> c1]

\* the text of a node's except branch, f"{Name} encountered an error: {e}",
\* kept by what it says like the agents' texts
NodeError(agent_name) == <<"error">>

\* what run()'s except branch returns
RunError == <<"An error occurred">>

\* history record of a handler invocation: the agent, the input it was
\* handed, whether the classifier was consulted before it, and what came
\* back: raised, or the response's success, whether its instructions ask
\* the user, whether it is a capability rejection, whether it carries a
\* fresh context object, and its user_message
NoInvocation ==
    [agent |-> "", input |-> <<>>, consulted |-> FALSE, raised |-> FALSE,
     success |-> FALSE, asks |-> FALSE, rejected |-> FALSE,
     replaced |-> FALSE, user_message |-> <<>>,
     extracted |-> NoExtraction]

Invocation(agent, input, consulted, o) ==
    [agent |-> agent, input |-> input, consulted |-> consulted,
     raised |-> o.raised,
     success |-> o.response.success,
     asks |-> \E k \in 1..Len(o.response.instructions) :
                 o.response.instructions[k] = "ask_user",
     rejected |-> o.response.capability_assessment = "cannot handle",
     replaced |-> o.response.updated_context = "new",
     user_message |-> o.response.user_message,
     extracted |-> o.extracted]

\* no function has been called on its own
NoCall == [op |-> "", agent |-> "", input |-> <<>>, context |-> EmptyContext,
           oracle |-> <<>>, result |-> <<>>]

\* the pending marker of a stored context (none for an unknown user)
NoPending == [agent |-> "", request |-> <<>>]

StoredPending(contexts, u) ==
    IF u \in DOMAIN contexts
    THEN [agent |-> contexts[u].pending_agent,
          request |-> contexts[u].pending_request]
    ELSE NoPending

\* the threads of the executor that run_with_streaming hands run() to
Threads == {1, 2}

\* a thread that is in no run() call
IdleRun ==
    [pc |-> "idle", query |-> <<>>, messages |-> <<>>, ref |-> 0,
     pending_agent |-> "", resumed |-> 0, handled |-> 0, lapped |-> FALSE,
     returned |-> <<>>]

Init ==
    /\ user_contexts = << >>
    /\ pc = "idle"
    /\ user_id = "default"
    /\ query = <<>>
    /\ messages = <<>>
    /\ context = EmptyContext
    /\ aliased = FALSE
    /\ next_agent = ""
    /\ step = 0
    /\ returned = <<>>
    /\ turns = 0
    /\ h_pending = NoPending
    /\ h_consulted = FALSE
    /\ h_count = 0
    /\ h_last = NoInvocation
    /\ h_success = FALSE
    /\ h_end = ""
    /\ h_chain = <<>>
    /\ h_outlined = FALSE
    /\ call = NoCall
    /\ files = << >>
    /\ saves = 0
    /\ h_written = {}
    /\ objs = <<>>
    /\ session = 0
    /\ runs = [t \in Threads |-> IdleRun]
    /\ begun = 0
    /\ h_asks = 0
    /\ h_stale = FALSE
    /\ collected_papers = <<>>
    /\ research = [s \in SessionKeys |-> IdleResearch]
    /\ summaries = [s \in SessionKeys |-> <<>>]
    /\ researched = 0

\* run(): lines 83-91, up to the start of the graph
RunStart(u, q) ==
    /\ pc = "idle"
    /\ turns' = turns + 1
    /\ user_id' = u
    /\ query' = q
    /\ context' = IF u \in DOMAIN user_contexts THEN user_contexts[u]
                  ELSE EmptyContext
    /\ aliased' = (u \in DOMAIN user_contexts)
    /\ messages' = <<Human(q)>>
    /\ next_agent' = ""
    /\ step' = 0
    /\ pc' = "supervisor"
    /\ returned' = <<>>
    /\ h_pending' = StoredPending(user_contexts, u)
    /\ h_consulted' = FALSE
    /\ h_count' = 0
    /\ h_last' = NoInvocation
    /\ h_success' = FALSE
    /\ h_end' = ""
    /\ UNCHANGED aside_vars
    /\ UNCHANGED h_outlined
    /\ UNCHANGED <<user_contexts, call>>

RunBegin(u, q) ==
    /\ turns < MaxTurns
    /\ RunStart(u, q)
    /\ UNCHANGED h_chain

\* variant: the in-place writes reach the context stored under every key
StoreInPlace_every_key(ctx) ==
    IF aliased THEN [u \in DOMAIN user_contexts |-> ctx]
    ELSE user_contexts

\* in-place writes to the context object of the graph state reach the
\* stored context when they are one object
StoreInPlace(ctx) ==
    IF aliased THEN [user_contexts EXCEPT ![user_id] = ctx]
    ELSE user_contexts

SupervisorNode ==
    /\ pc = "supervisor"
    /\ step < RecursionLimit
    /\ step' = step + 1
    /\ IF SupervisorEnds(messages, context)
       THEN /\ next_agent' = "END"
            /\ pc' = "END"
            /\ UNCHANGED <<context, user_contexts, h_consulted, h_last>>
       ELSE \E answer \in RoutingAnswers :
              LET d == MakeRoutingDecision(messages, context, answer)
              IN  /\ next_agent' = d.decision
                  /\ pc' = d.decision
                  /\ context' = d.context
                  /\ user_contexts' = StoreInPlace(d.context)
                  /\ h_consulted' = (h_consulted \/ d.consulted)
                  /\ h_last' = IF d.decision = "END" THEN h_last
                               ELSE NoInvocation
    /\ h_pending' = IF h_count = 0 THEN h_pending ELSE NoPending
    /\ UNCHANGED aside_vars
    /\ UNCHANGED h_outlined
    /\ UNCHANGED <<user_id, query, messages, aliased, returned,
                   turns, h_count, h_success, h_end, h_chain,
                   call>>

\* what a node writes into the context object before it handles the
\* response: _structure_agent_node keeps the outline of a successful
\* response (line 295)
NodeStores(agent_name, response, ctx) ==
    IF agent_name = "structure_agent" /\ response.success
    THEN [ctx EXCEPT !.latest_outline = "outline"]
    ELSE ctx

\* the last message a node reads: writing_assistant takes the last
\* HumanMessage, the other nodes messages[-1]
LastMessage(agent_name) ==
    IF agent_name = "writing_assistant" THEN query
    ELSE messages[Len(messages)].content

\* observed: the history keeps what the agent extracted from its input
AgentStep(agent_name, observed) ==
    /\ pc = agent_name
    /\ step < RecursionLimit
    /\ step' = step + 1
    /\ pc' = "supervisor"
    /\ LET g == GetInputToProcess(LastMessage(agent_name), context)
       IN  \E o \in IF observed
                 THEN ProcessRequestObserved(agent_name, g.input, g.context)
                 ELSE ProcessRequest(agent_name, g.input, g.context) :
             /\ h_count' = h_count + 1
             /\ h_outlined' = (h_outlined \/ (/\ observed
                                              /\ agent_name = "structure_agent"
                                              /\ ~o.raised
                                              /\ o.response.success))
             /\ h_last' = Invocation(agent_name, g.input, h_consulted, o)
             /\ h_success' = (h_success \/ (~o.raised /\ o.response.success))
             /\ IF o.raised
                THEN /\ messages' =
                          AddMessage(messages, AI(NodeError(agent_name)))
                     /\ context' = o.context
                     /\ user_contexts' = StoreInPlace(o.context)
                     /\ aliased' = aliased
                ELSE LET r == HandleAgentResponse(o.response,
                                  NodeStores(agent_name, o.response, o.context),
                                  agent_name, g.input)
                     IN  /\ messages' = AddMessage(messages, AI(r.message))
                         /\ context' = r.context
                         /\ user_contexts' = StoreInPlace(r.inplace)
                         /\ aliased' = (aliased /\ ~r.replaced)
    /\ UNCHANGED aside_vars
    /\ UNCHANGED <<user_id, query, next_agent, returned, turns,
                   h_pending, h_consulted, h_end, h_chain,
                   call>>

AgentNode(agent_name) == AgentStep(agent_name, FALSE)

TopicScoutNode == AgentNode("topic_scout")
ResearchAgentNode == AgentNode("research_agent")
StructureAgentNode == AgentNode("structure_agent")
WritingAssistantNode == AgentNode("writing_assistant")
ReviewerAgentNode == AgentNode("reviewer_agent")

\* run(): lines 96-105, the graph reached END
RunReturn ==
    /\ pc = "END"
    /\ user_contexts' =
          [u \in DOMAIN user_contexts \cup {user_id} |->
              IF u = user_id THEN context ELSE user_contexts[u]]
    /\ aliased' = TRUE
    /\ returned' = messages[Len(messages)].content
    /\ pc' = "idle"
    /\ h_end' = "END"
    /\ UNCHANGED aside_vars
    /\ UNCHANGED h_outlined
    /\ UNCHANGED <<user_id, query, messages, context, next_agent,
                   step, turns, h_pending, h_consulted, h_count, h_last,
                   h_success, h_chain,
                   call>>

\* variant: run() without its except branch, the error leaves run()
RunRecursionError_uncaught ==
    /\ pc \in Handlers \cup {"supervisor"}
    /\ step >= RecursionLimit
    /\ pc' = "raised"
    /\ h_end' = "GraphRecursionError"
    /\ UNCHANGED aside_vars
    /\ UNCHANGED h_outlined
    /\ UNCHANGED <<user_contexts, user_id, query, messages, context,
                   aliased, next_agent, step, returned, turns, h_pending,
                   h_consulted, h_count, h_last, h_success, h_chain,
                   call>>

\* run(): lines 107-109, the graph ran out of supersteps
RunRecursionError ==
    /\ pc \in Handlers \cup {"supervisor"}
    /\ step >= RecursionLimit
    /\ returned' = RunError
    /\ pc' = "idle"
    /\ h_end' = "GraphRecursionError"
    /\ UNCHANGED aside_vars
    /\ UNCHANGED h_outlined
    /\ UNCHANGED <<user_contexts, user_id, query, messages, context,
                   aliased, next_agent, step, turns, h_pending, h_consulted,
                   h_count, h_last, h_success, h_chain,
                   call>>

Next ==
    \/ \E u \in Users, q \in Queries : RunBegin(u, q)
    \/ SupervisorNode
    \/ TopicScoutNode
    \/ ResearchAgentNode
    \/ StructureAgentNode
    \/ WritingAssistantNode
    \/ ReviewerAgentNode
    \/ RunReturn
    \/ RunRecursionError

Spec == Init /\ [][Next]_vars

\* ------------------------------------------------- clarification sessions
\* Sessions of up to ClarifyTurns turns in which the routing classifier
\* ends the turn once a handler has answered, so that every turn invokes
\* one handler; run() then never runs out of supersteps.  The history keeps
\* what topic_scout extracted and the user's messages of the running
\* clarification chain.
ClarifyTurns == 3

\* the chain with the message q of user u: it goes on when a handler is
\* pending for u, and starts anew otherwise
ChainWith(u, q) ==
    LET stored == IF u \in DOMAIN user_contexts THEN user_contexts[u]
                  ELSE EmptyContext
        link == [message |-> q, context |-> stored]
    IN  IF stored.pending_agent # "" THEN Append(h_chain, link)
        ELSE <<link>>

ClarifyBegin(u, q) ==
    /\ turns < ClarifyTurns
    /\ RunStart(u, q)
    /\ h_chain' = ChainWith(u, q)

ClarifySupervisorNode ==
    /\ SupervisorNode
    /\ h_count > 0 => pc' = "END"

ClarifyAgentNode(agent_name) == AgentStep(agent_name, TRUE)

NextClarify ==
    \/ \E u \in Users, q \in Queries : ClarifyBegin(u, q)
    \/ ClarifySupervisorNode
    \/ \E agent_name \in Handlers : ClarifyAgentNode(agent_name)
    \/ RunReturn

SpecClarify == Init /\ [][NextClarify]_vars

\* ----------------------------------------------------- rerouting sessions
\* Sessions of up to ChainTurns turns in which the routing classifier may
\* select a handler again after a handler has answered, up to
\* ChainHandlers invocations in a turn.  The history keeps the user's
\* messages of the running clarification chain.
ChainTurns == 2
ChainHandlers == 2

ChainBegin(u, q) ==
    /\ turns < ChainTurns
    /\ RunStart(u, q)
    /\ h_chain' = ChainWith(u, q)

ChainSupervisorNode ==
    /\ SupervisorNode
    /\ h_count >= ChainHandlers => pc' = "END"

NextChain ==
    \/ \E u \in Users, q \in Queries : ChainBegin(u, q)
    \/ ChainSupervisorNode
    \/ \E agent_name \in Handlers : AgentNode(agent_name)
    \/ RunReturn

SpecChain == Init /\ [][NextChain]_vars

\* ------------------------------------------- functions called on their own
\* Each function of the agents and of the router is also called on its own,
\* on arguments drawn from the sets below; the orchestrator stays as it is
\* after construction.
orchestrator_vars ==
    <<user_contexts, pc, user_id, query, messages, context, aliased,
      next_agent, step, returned, turns, h_pending, h_consulted, h_count,
      h_last, h_success, h_end, h_chain, h_outlined>>

Call(op, agent, input, ctx, oracle, result) ==
    [op |-> op, agent |-> agent, input |-> input, context |-> ctx,
     oracle |-> oracle, result |-> result]

\* message lists the supervisor sees: the user's message, alone or followed
\* by a handler's answer
RoutingMessages ==
    {<<Human(q)>> : q \in Queries}
        \cup {<<Human(q), AI(<<"result">>)>> : q \in Queries}

\* contexts with and without a pending marker
RoutingContexts ==
    {EmptyContext}
        \cup {[EmptyContext EXCEPT !.pending_agent = h, !.pending_request = q] :
                h \in Handlers, q \in Queries}

CallMakeRoutingDecision ==
    /\ call.op = NoCall.op
    /\ \E msgs \in RoutingMessages, ctx \in RoutingContexts,
          answer \in RoutingAnswers :
           /\ call' = Call("_make_routing_decision", "", msgs, ctx, answer,
                           MakeRoutingDecision(msgs, ctx, answer))
           /\ UNCHANGED <<orchestrator_vars, aside_vars>>

\* can_handle_request of each agent, with the reply of the service to its
\* capability prompt; reviewer_agent decides on the input alone and makes
\* no call to the service
CanHandleReplies(agent_name) ==
    CASE agent_name = "research_agent" -> ResearchReplies
      [] agent_name = "reviewer_agent" -> {[failed |-> FALSE, words |-> {}]}
      [] OTHER -> AssessReplies

CanHandleRequest(agent_name, user_input, reply) ==
    CASE agent_name = "research_agent" ->
             Research_can_handle_request(reply).can_handle
      [] agent_name = "reviewer_agent" -> ReviewIntent(user_input)
      [] OTHER -> YesNoCanHandle(reply)

CallCanHandleRequest ==
    /\ call.op = NoCall.op
    /\ \E agent_name \in Handlers, user_input \in Queries :
         \E reply \in CanHandleReplies(agent_name) :
           /\ call' = Call("can_handle_request", agent_name, user_input,
                           EmptyContext, reply,
                           CanHandleRequest(agent_name, user_input, reply))
           /\ UNCHANGED <<orchestrator_vars, aside_vars>>

\* contexts a handler is called with
CallContexts ==
    { [UserContext(f, i) EXCEPT !.latest_outline = st, !.working_title = t] :
        f \in Fields, i \in InterestLists, st \in Storages, t \in {"", "T"} }

\* what a process_request call of an agent can be recorded with: what the
\* patterns of writing_assistant find, what the calls of topic_scout yield
ProcessInputs(agent_name, user_input) ==
    CASE agent_name = "writing_assistant" -> WritingInputsOf(user_input)
      [] agent_name = "topic_scout" -> TopicScoutInputs
      [] OTHER -> {<<>>}

ProcessRequestOn(agent_name, found, user_input, ctx, st) ==
    CASE agent_name = "writing_assistant" ->
             {Writing_process_request_on(found, user_input, ctx, st)}
      [] agent_name = "topic_scout" ->
             {TopicScout_process_request_on(found, user_input, ctx)}
      [] OTHER -> AgentProcessRequest(agent_name, user_input, ctx, st)

\* process_request of each agent
CallProcessRequest ==
    /\ call.op = NoCall.op
    /\ \E agent_name \in Handlers, user_input \in Queries, ctx \in CallContexts,
          st \in Storages :
         \E found \in ProcessInputs(agent_name, user_input) :
         \E o \in ProcessRequestOn(agent_name, found, user_input, ctx, st) :
           /\ call' = Call("process_request", agent_name, user_input, ctx,
                           [storage |-> st, found |-> <<found>>], o)
           /\ UNCHANGED <<orchestrator_vars, aside_vars>>

\* the agents that choose their question in a function of its own
Questioners == {"topic_scout", "research_agent", "structure_agent"}

NextQuestion(agent_name, ctx, reply) ==
    CASE agent_name = "topic_scout" -> TopicScout_get_next_question(ctx)
      [] agent_name = "structure_agent" -> Structure_get_next_question(ctx)
      [] agent_name = "research_agent" ->
             Research_get_research_clarification_question(reply)

\* the question function of an agent, called twice with the same context;
\* the service answers each call of research_agent on its own
CallNextQuestion ==
    /\ call.op = NoCall.op
    /\ \E agent_name \in Questioners, ctx \in CallContexts :
         \E r1 \in ClarificationReplies, r2 \in ClarificationReplies :
           /\ call' = Call("_get_next_question", agent_name, <<>>, ctx,
                           IF agent_name = "research_agent"
                           THEN <<r1, r2>> ELSE <<>>,
                           <<NextQuestion(agent_name, ctx, r1),
                             NextQuestion(agent_name, ctx, r2)>>)
           /\ UNCHANGED <<orchestrator_vars, aside_vars>>

HasEnoughInfo(agent_name, ctx, reply) ==
    CASE agent_name = "topic_scout" -> TopicScout_has_enough_info(ctx)
      [] agent_name = "structure_agent" -> Structure_has_enough_info(ctx)
      [] agent_name = "research_agent" ->
             Research_has_enough_research_info(reply)

\* wider keeps every field that is set in ctx and may set others
Extends(ctx, wider) ==
    /\ ctx.field # "" => wider.field = ctx.field
    /\ ctx.interests # <<>> => wider.interests = ctx.interests
    /\ ctx.working_title # "" => wider.working_title = ctx.working_title
    /\ ctx.latest_outline # "" => wider.latest_outline = ctx.latest_outline

\* the sufficiency check of an agent, called with a context and then with
\* a context that extends it; the service answers each call of
\* research_agent on its own
CallHasEnoughInfo ==
    /\ call.op = NoCall.op
    /\ \E agent_name \in Questioners, ctx \in CallContexts :
         \E wider \in {c \in CallContexts : Extends(ctx, c)} :
         \E r1 \in EnoughReplies, r2 \in EnoughReplies :
           /\ call' = Call("_has_enough_info", agent_name, <<>>, ctx,
                           [wider |-> wider,
                            replies |-> IF agent_name = "research_agent"
                                        THEN <<r1, r2>> ELSE <<>>],
                           <<HasEnoughInfo(agent_name, ctx, r1),
                             HasEnoughInfo(agent_name, wider, r2)>>)
           /\ UNCHANGED <<orchestrator_vars, aside_vars>>

\* what an agent node returns to the graph for the outcome o of its
\* agent's process_request
NodeReturns(agent_name, input, o) ==
    IF o.raised
    THEN [message |-> NodeError(agent_name), context |-> o.context,
          replaced |-> FALSE, inplace |-> o.context]
    ELSE HandleAgentResponse(o.response,
             NodeStores(agent_name, o.response, o.context),
             agent_name, input)

\* an agent node of the graph, with the user's message as its last message
CallAgentNode ==
    /\ call.op = NoCall.op
    /\ \E agent_name \in Handlers, user_input \in Queries, ctx \in CallContexts,
          st \in Storages :
         \E found \in ProcessInputs(agent_name, user_input) :
         \E o \in ProcessRequestOn(agent_name, found,
                        GetInputToProcess(user_input, ctx).input,
                        GetInputToProcess(user_input, ctx).context, st) :
           /\ call' = Call("node", agent_name, user_input, ctx,
                           [storage |-> st, found |-> <<found>>],
                           NodeReturns(agent_name,
                               GetInputToProcess(user_input, ctx).input, o))
           /\ UNCHANGED <<orchestrator_vars, aside_vars>>

NextCalls ==
    \/ CallMakeRoutingDecision
    \/ CallCanHandleRequest
    \/ CallProcessRequest
    \/ CallNextQuestion
    \/ CallHasEnoughInfo
    \/ CallAgentNode

SpecCalls == Init /\ [][NextCalls]_vars

\* ------------------------------------------------------------ two sessions
\* turns of two session keys on one orchestrator, one after the other; the
\* classifier ends a turn once a handler has answered
SessionTurns == 3

SessionBegin(u, q) ==
    /\ turns < SessionTurns
    /\ RunStart(u, q)
    /\ UNCHANGED h_chain

NextSessions ==
    \/ \E u \in SessionKeys, q \in Queries : SessionBegin(u, q)
    \/ ClarifySupervisorNode
    \/ \E agent_name \in Handlers : AgentNode(agent_name)
    \/ RunReturn

SpecSessions == Init /\ [][NextSessions]_vars

\* ---------------------------------------------------------- artifact store
\* save_outline and save_passage called on the store under data/thesis.  A
\* file is the sequence of content blocks it holds.
MaxSaves == 3

\* DraftPassage.content_markdown of the passage to save
Passages == {"draft one", "draft two"}

\* the outline to save
Outlines == {"outline one", "outline two"}

\* chapter_index.section_index of the passage
Targets == {"1.0", "1.1"}

\* the topic save_outline is called with ("" for none)
OutlineTopics == {"", "T"}

MergeStrategies == {"append", "overwrite", "version", "revise"}

\* open(path, "w"): the file holds the blocks and nothing else
WriteFile(fs, path, blocks) ==
    [p \in (DOMAIN fs) \cup {path} |-> IF p = path THEN blocks ELSE fs[p]]

\* open(path, "a")
AppendFile(fs, path, block) ==
    WriteFile(fs, path, Append(fs[path], block))

\* json_path of save_outline
outline_path(topic) ==
    [dir |-> "outline",
     name |-> IF topic # "" THEN topic ELSE "thesis",
     version |-> 1]

\* path (version 1) and cand (version k) of save_passage
section_path(target, version) ==
    [dir |-> "chapter", name |-> target, version |-> version]

\* the first k from 2 on whose version file does not exist
FirstFreeVersion(fs, target) ==
    CHOOSE k \in 2..(Cardinality(DOMAIN fs) + 2) :
        /\ section_path(target, k) \notin DOMAIN fs
        /\ \A j \in 2..(k - 1) : section_path(target, j) \in DOMAIN fs

\* save_outline; opened is FALSE when open() raises, which is caught
save_outline(fs, outline, topic, opened) ==
    IF opened THEN WriteFile(fs, outline_path(topic), <<outline>>) ELSE fs

save_passage(fs, target, new_block, merge_strategy) ==
    LET path == section_path(target, 1)
    IN  IF merge_strategy = "overwrite" \/ path \notin DOMAIN fs
        THEN WriteFile(fs, path, <<new_block>>)
        ELSE IF merge_strategy = "append"
        THEN AppendFile(fs, path, new_block)
        ELSE IF merge_strategy = "version"
        THEN WriteFile(fs, section_path(target, FirstFreeVersion(fs, target)),
                       <<new_block>>)
        ELSE \* "revise": the header is kept, the body becomes old + new
             WriteFile(fs, path, Append(fs[path], new_block))

SaveOutline ==
    /\ saves < MaxSaves
    /\ \E outline \in Outlines, topic \in OutlineTopics, opened \in BOOLEAN :
          /\ files' = save_outline(files, outline, topic, opened)
          /\ h_written' = IF opened THEN h_written \cup {outline}
                          ELSE h_written
    /\ saves' = saves + 1
    /\ UNCHANGED <<orchestrator_vars, call, overlap_vars, research_vars>>

SavePassage ==
    /\ saves < MaxSaves
    /\ \E target \in Targets, new_block \in Passages,
          merge \in MergeStrategies :
          /\ files' = save_passage(files, target, new_block, merge)
          /\ h_written' = h_written \cup {new_block}
    /\ saves' = saves + 1
    /\ UNCHANGED <<orchestrator_vars, call, overlap_vars, research_vars>>

NextStore ==
    \/ SaveOutline
    \/ SavePassage

SpecStore == Init /\ [][NextStore]_vars

\* -------------------------------------------------------- overlapping runs
\* run() calls of one orchestrator for the key "default", each in a thread
\* of the executor.  The threads share user_contexts and the UserContext
\* objects it holds; a thread can be switched between any two statements.
\* The classifier ends a run once a handler has answered.
OverlapRuns == 3

\* the message of each of the calls
OverlapQueries == {<<"hello">>}

Context(ref) == objs[ref].context

\* a slot of objs whose object no one refers to any more
Free == [context |-> EmptyContext, asked |-> 0 - 1]

\* the objects that user_contexts or a running call refers to stay, the
\* others are dropped
Collect(os, held, rs) ==
    [i \in 1..Len(os) |->
        IF i = held \/ \E t \in Threads : rs[t].pc # "idle" /\ rs[t].ref = i
        THEN os[i] ELSE Free]

\* where a new object goes
NewRef(os) ==
    IF \E i \in 1..Len(os) : os[i] = Free
    THEN CHOOSE i \in 1..Len(os) :
            os[i] = Free /\ \A j \in 1..(i - 1) : os[j] # Free
    ELSE Len(os) + 1

NewObject(os, obj) ==
    IF NewRef(os) > Len(os) THEN Append(os, obj)
    ELSE [os EXCEPT ![NewRef(os)] = obj]

\* run(): lines 83-91
OverlapRunStart(t, q) ==
    /\ begun < OverlapRuns
    /\ runs[t].pc = "idle"
    /\ begun' = begun + 1
    /\ objs' = IF session = 0
               THEN NewObject(objs, [context |-> EmptyContext, asked |-> 0])
               ELSE objs
    /\ runs' = [runs EXCEPT ![t] =
                  [IdleRun EXCEPT !.pc = "supervisor",
                                  !.query = q,
                                  !.messages = <<Human(q)>>,
                                  !.ref = IF session = 0 THEN NewRef(objs)
                                          ELSE session]]
    /\ UNCHANGED <<session, h_asks, h_stale>>
    /\ UNCHANGED <<orchestrator_vars, call, store_vars, research_vars>>

\* _supervisor_node, and _make_routing_decision up to line 152
OverlapSupervisorNode(t) ==
    /\ runs[t].pc = "supervisor"
    /\ \E answer \in RoutingAnswers :
          /\ runs[t].handled > 0 => Classified(answer) = "END"
          /\ runs' = [runs EXCEPT ![t].pc =
                IF SupervisorEnds(runs[t].messages, Context(runs[t].ref))
                THEN "END"
                ELSE IF Context(runs[t].ref).pending_agent # ""
                THEN "enrich"
                ELSE Classified(answer)]
    /\ UNCHANGED <<objs, session, begun, h_asks, h_stale>>
    /\ UNCHANGED <<orchestrator_vars, call, store_vars, research_vars>>

\* _make_routing_decision: lines 153-161
OverlapEnrich(t) ==
    /\ runs[t].pc = "enrich"
    /\ LET c == Context(runs[t].ref)
       IN  /\ objs' = [objs EXCEPT ![runs[t].ref].context.enriched_input =
                         IF Truthy(c.pending_request)
                         THEN Enrich(c.pending_request,
                                     CurrentUserInput(runs[t].messages))
                         ELSE @]
           /\ runs' = [runs EXCEPT ![t].pc = "clear",
                                   ![t].pending_agent = c.pending_agent,
                                   ![t].resumed =
                                       IF c.pending_agent # ""
                                       THEN objs[runs[t].ref].asked ELSE 0]
    /\ UNCHANGED <<session, begun, h_asks, h_stale>>
    /\ UNCHANGED <<orchestrator_vars, call, store_vars, research_vars>>

\* _make_routing_decision: lines 162-165, and the edge out of the
\* supervisor; a decision of None is no key of the edge's mapping, the
\* error leaves the graph and run() returns from its except branch
OverlapClear(t) ==
    /\ runs[t].pc = "clear"
    /\ runs' = [runs EXCEPT ![t] =
                  IF runs[t].pending_agent # ""
                  THEN [@ EXCEPT !.pc = runs[t].pending_agent]
                  ELSE [IdleRun EXCEPT !.returned = RunError]]
    /\ objs' = Collect([objs EXCEPT ![runs[t].ref] =
                          [context |-> [@.context EXCEPT
                                          !.pending_agent = "",
                                          !.pending_request = <<>>],
                           asked |-> 0]],
                       session, runs')
    /\ UNCHANGED <<session, begun, h_asks, h_stale>>
    /\ UNCHANGED <<orchestrator_vars, call, store_vars, research_vars>>

\* an agent node of the graph
OverlapAgentNode(t, agent_name) ==
    /\ runs[t].pc = agent_name
    /\ LET ref == runs[t].ref
           msgs == runs[t].messages
           last == IF agent_name = "writing_assistant" THEN runs[t].query
                   ELSE msgs[Len(msgs)].content
           g == GetInputToProcess(last, Context(ref))
       IN  \E o \in ProcessRequest(agent_name, g.input, g.context) :
             IF o.raised
             THEN /\ objs' = [objs EXCEPT ![ref].context = o.context]
                  /\ runs' = [runs EXCEPT
                        ![t].pc = "supervisor",
                        ![t].handled = @ + 1,
                        ![t].messages =
                            AddMessage(msgs, AI(NodeError(agent_name)))]
                  /\ h_asks' = h_asks
             ELSE LET r == HandleAgentResponse(o.response,
                               NodeStores(agent_name, o.response, o.context),
                               agent_name, g.input)
                      asks == NeedsMoreInformation(o.response)
                      asked == IF asks THEN h_asks + 1 ELSE 0
                      written == [objs EXCEPT ![ref] =
                                    [context |-> r.inplace, asked |-> asked]]
                  IN  /\ runs' = [runs EXCEPT
                            ![t].pc = "supervisor",
                            ![t].handled = @ + 1,
                            ![t].messages = AddMessage(msgs, AI(r.message)),
                            ![t].ref = IF r.replaced THEN NewRef(objs)
                                       ELSE ref]
                      /\ objs' = Collect(
                            IF r.replaced
                            THEN NewObject(written, [context |-> r.context,
                                                     asked |-> asked])
                            ELSE written,
                            session, runs')
                      /\ h_asks' = IF asks THEN h_asks + 1 ELSE h_asks
    /\ UNCHANGED <<session, begun, h_stale>>
    /\ UNCHANGED <<orchestrator_vars, call, store_vars, research_vars>>

\* over lacks something that kept holds
Loses(over, kept) ==
    \E k \in DOMAIN kept : kept[k] # EmptyContext[k] /\ over[k] # kept[k]

\* run(): lines 96-105
OverlapRunReturn(t) ==
    /\ runs[t].pc = "END"
    /\ session' = runs[t].ref
    /\ h_stale' = (h_stale \/ (/\ runs[t].lapped
                               /\ session # runs[t].ref
                               /\ Loses(Context(runs[t].ref),
                                        Context(session))))
    /\ runs' = [u \in Threads |->
                  IF u = t
                  THEN [IdleRun EXCEPT
                          !.returned =
                              runs[t].messages[Len(runs[t].messages)].content]
                  ELSE IF runs[u].pc # "idle" /\ session # runs[t].ref
                  THEN [runs[u] EXCEPT !.lapped = TRUE]
                  ELSE runs[u]]
    /\ objs' = Collect(objs, session', runs')
    /\ UNCHANGED <<begun, h_asks>>
    /\ UNCHANGED <<orchestrator_vars, call, store_vars, research_vars>>

NextOverlap ==
    \/ \E t \in Threads, q \in OverlapQueries : OverlapRunStart(t, q)
    \/ \E t \in Threads : OverlapSupervisorNode(t)
    \/ \E t \in Threads : OverlapEnrich(t)
    \/ \E t \in Threads : OverlapClear(t)
    \/ \E t \in Threads, agent_name \in Handlers :
          OverlapAgentNode(t, agent_name)
    \/ \E t \in Threads : OverlapRunReturn(t)

SpecOverlap == Init /\ [][NextOverlap]_vars

\* ------------------------------------------- research turns of two sessions
\* run() calls for two user_id values on the one Orchestrator, each in an
\* executor thread, their turns routed to research_agent: the steps of
\* _research_agent_node of one session interleave with those of the other
ResearchRuns == 3

ResearchTopics == {"x", "y"}

\* papers taken into research_summaries
SummaryLimit == 8

\* characters of an abstract that a summary keeps
AbstractLimit == 500

\* the papers the academic databases hold on a topic: a title and the
\* length of the abstract (0 for none)
Library(topic) ==
    << [title |-> <<topic, 1>>, abstract |-> 600],
       [title |-> <<topic, 2>>, abstract |-> 0] >>

\* search_papers: the deduplicated results of both databases, each of
\* which may fail
SearchPapers(topic) ==
    { SubSeq(Library(topic), 1, n) : n \in 0..Len(Library(topic)) }

\* _llm_score_relevance: the same papers, sorted by the scores given
Scored(papers) ==
    { papers } \cup
    { [i \in 1..Len(papers) |-> papers[Len(papers) + 1 - i]] }

\* ResearchSummary of a paper: the abstract cut at AbstractLimit, "..."
\* added
ResearchSummaryOf(p) ==
    [title |-> p.title,
     summary |-> IF p.abstract > AbstractLimit THEN AbstractLimit + 3
                 ELSE p.abstract]

\* the summaries of the first SummaryLimit papers
SummariesOf(papers) ==
    [i \in 1..(IF Len(papers) < SummaryLimit THEN Len(papers)
               ELSE SummaryLimit) |-> ResearchSummaryOf(papers[i])]

\* run() up to the research node: the context stored under the key, or a
\* new one
ResearchBegin(s, topic) ==
    /\ researched < ResearchRuns
    /\ research[s].pc \in {"idle", "done"}
    /\ researched' = researched + 1
    /\ research' = [research EXCEPT ![s] =
           [pc |-> "process", topic |-> topic, success |-> FALSE,
            result |-> <<>>, research_summaries |-> summaries[s]]]
    /\ UNCHANGED <<collected_papers, summaries>>
    /\ UNCHANGED <<orchestrator_vars, call, store_vars, overlap_vars>>

\* research_agent.process_request, which answers without research
\* (rejection, question) or conducts it: collect_papers keeps the scored
\* papers in the agent's attribute and returns them, or returns none
ResearchProcess(s) ==
    /\ research[s].pc = "process"
    /\ \E reaches \in BOOLEAN, saved \in BOOLEAN :
       \E papers \in SearchPapers(research[s].topic) :
       \E scored_papers \in Scored(papers) :
          LET collects == reaches /\ papers # <<>>
              found == IF collects /\ saved THEN scored_papers ELSE <<>>
          IN  /\ collected_papers' =
                     IF collects THEN scored_papers ELSE collected_papers
              /\ research' = [research EXCEPT
                     ![s].pc = "store",
                     ![s].success = (found # <<>>),
                     ![s].result = found]
    /\ UNCHANGED <<summaries, researched>>
    /\ UNCHANGED <<orchestrator_vars, call, store_vars, overlap_vars>>

\* _store_research_summaries
ResearchStore(s) ==
    /\ research[s].pc = "store"
    /\ research' = [research EXCEPT
           ![s].pc = "return",
           ![s].research_summaries =
               IF research[s].success THEN SummariesOf(collected_papers)
               ELSE @]
    /\ UNCHANGED <<collected_papers, summaries, researched>>
    /\ UNCHANGED <<orchestrator_vars, call, store_vars, overlap_vars>>

\* the rest of the turn: run() stores the context under the key
ResearchReturn(s) ==
    /\ research[s].pc = "return"
    /\ summaries' = [summaries EXCEPT ![s] = research[s].research_summaries]
    /\ research' = [research EXCEPT ![s].pc = "done"]
    /\ UNCHANGED <<collected_papers, researched>>
    /\ UNCHANGED <<orchestrator_vars, call, store_vars, overlap_vars>>

NextResearch ==
    \/ \E s \in SessionKeys, topic \in ResearchTopics : ResearchBegin(s, topic)
    \/ \E s \in SessionKeys : ResearchProcess(s)
    \/ \E s \in SessionKeys : ResearchStore(s)
    \/ \E s \in SessionKeys : ResearchReturn(s)

SpecResearch == Init /\ [][NextResearch]_vars

\* ------------------------------------------------------------------ claims
\* the marker stored for the session of the running (or last) turn
Stored == StoredPending(user_contexts, user_id)

\* a run() call has returned and the next has not begun
TurnEnded == pc = "idle" /\ turns > 0

\* the turn started from a pending marker and its first handler has answered
FirstOfResumed == h_pending.agent # "" /\ h_count = 1

\* the latest handler invocation of the turn came back unsuccessful with an
\* ask_user instruction
Asked == h_count > 0 /\ ~h_last.raised /\ ~h_last.success /\ h_last.asks

\* C1: a turn that starts with pending_agent = H invokes H as its first
\* handler, the routing classifier is not consulted before H is invoked,
\* and the turn does not end before H was invoked.
C1_ResumePrecedence ==
    h_pending.agent # "" =>
        /\ h_count = 0 =>
              (~h_consulted /\ pc \in {"supervisor", h_pending.agent})
        /\ h_count = 1 =>
              (h_last.agent = h_pending.agent /\ ~h_last.consulted)

C1_Witness ==
    /\ FirstOfResumed
    /\ h_last.agent = h_pending.agent
    /\ h_last.agent = "research_agent"

\* C2: the handler resumed from a pending marker never answers the resumed
\* request with a capability rejection (its assessment is not run again).
C2_ResumedNeverRejects == FirstOfResumed => ~h_last.rejected

\* C3: on a resumption turn with a non-empty pending_request P and the
\* user's message M, the resumed handler is handed the enriched input built
\* from P followed by M.
C3_EnrichedInput ==
    (FirstOfResumed /\ Truthy(h_pending.request)) =>
        h_last.input = <<"Original request:">> \o h_pending.request
                           \o <<"User's additional info:">> \o query

C3_Witness ==
    /\ FirstOfResumed
    /\ h_pending.request = <<"hello">>
    /\ query = <<"review">>
    /\ h_last.input = <<"Original request:", "hello",
                        "User's additional info:", "review">>

C5_SuccessLeavesNoPending ==
    (TurnEnded /\ h_success) => Stored = NoPending

\* C6: at every turn boundary pending_agent is non-empty if and only if the
\* last handler response of the turn was a clarification request; it is
\* empty after a rejection, a failure, a caught exception and a turn
\* without a handler.
C6_PendingIffAsked ==
    TurnEnded => ((Stored.agent # "") <=> Asked)

\* a resumed turn whose handler raised
C6_Witness ==
    /\ TurnEnded
    /\ turns = 2
    /\ h_count = 1
    /\ h_last.raised
    /\ h_last.input = <<"Original request:", "hello",
                        "User's additional info:", "review">>
    /\ Stored = NoPending

\* C7: at most one handler is invoked in a turn.
C7_OneHandlerPerTurn == h_count <= 1

\* C8: every turn ends with the graph at END.
C8_TurnReachesEnd == TurnEnded => h_end = "END"

\* C9: a run() whose graph is at END or out of supersteps can return; a
\* run() that returned did so with a text (the last message or the error
\* text), and a new turn is accepted afterwards.
C9_RunReturnsText ==
    /\ (pc # "idle" /\ (pc = "END" \/ step >= RecursionLimit)) =>
          ENABLED (RunReturn \/ RunRecursionError)
    /\ TurnEnded =>
          /\ h_end \in {"END", "GraphRecursionError"}
          /\ returned \in {messages[Len(messages)].content, RunError}
    /\ (pc = "idle" /\ turns < MaxTurns) =>
          ENABLED (\E u \in Users, q \in Queries : RunBegin(u, q))

\* a turn that ran out of supersteps returned the error text
C9_Witness ==
    /\ TurnEnded
    /\ h_end = "GraphRecursionError"
    /\ returned = RunError

\* C10: the text a turn that reached END returns is the user_message of the
\* handler response of that turn; a turn without a handler does not return
\* the user's own message.
C10_ReturnsHandlerMessage ==
    (TurnEnded /\ h_end = "END") =>
        IF h_count = 0 THEN returned # query
        ELSE h_last.raised \/ returned = h_last.user_message

\* C11: with no handler pending, a classifier answer that is none of the
\* five handler names and not END, or a failed classifier call, gives the
\* decision topic_scout; every decision is a handler node or END.
C11_DefaultsToTopicScout ==
    call.op = "_make_routing_decision" =>
        /\ call.result.decision \in Handlers \cup {"END"}
        /\ (/\ call.context.pending_agent = ""
            /\ \/ call.oracle.failed
               \/ call.oracle.text \in {"general", "topic_scout."}) =>
              call.result.decision = "topic_scout"

C11_Witness ==
    /\ call.op = "_make_routing_decision"
    /\ call.context.pending_agent = ""
    /\ call.oracle.text = "general"
    /\ call.result.decision = "topic_scout"

\* C12: with the classifier unavailable, for each of the five handlers there
\* is a user message that the routing sends to that handler.
C12_FallbackReachesEveryHandler ==
    (call.op = "_make_routing_decision" /\ call.oracle.failed) =>
        \A h \in Handlers :
            \E q \in Queries :
                MakeRoutingDecision(<<Human(q)>>, EmptyContext,
                                    call.oracle).decision = h

\* C13: a supervisor that is re-entered after a handler answered with
\* success = true ends the turn, and does not consult the classifier.
C13_SuccessEndsTurn ==
    [][ (/\ pc = "supervisor"
         /\ h_count > 0
         /\ h_last.agent # ""
         /\ ~h_last.raised
         /\ h_last.success) =>
            (pc' = "END" /\ h_consulted' = h_consulted) ]_vars

\* C14: on a turn that began without a pending marker (every handler of a
\* session's first turn, and the first handler of a later turn), the input
\* handed to a handler is the user's message of the turn.
C14_RawMessageWithoutPending ==
    (/\ h_count > 0
     /\ h_last.agent # ""
     /\ h_pending.agent = ""
     /\ turns = 1 \/ (h_count = 1 /\ pc = "supervisor")) =>
        h_last.input = query

\* C17: no handler invocation ends with process_request raising to the node.
C17_ProcessRequestNeverRaises ==
    (h_count > 0 /\ h_last.agent # "") => ~h_last.raised

\* the domain fields of a context
DomainFields(ctx) ==
    <<ctx.field, ctx.interests, ctx.working_title, ctx.latest_outline>>

\* C15: in the first turn of a session (whose context starts empty), when
\* the turn's one handler failed in execution (success = false without an
\* ask_user instruction, and no capability rejection), the domain fields of
\* the context stored at the end of the turn are those of the start.
C15_FailureKeepsDomainFields ==
    (/\ TurnEnded
     /\ h_end = "END"
     /\ turns = 1
     /\ h_count = 1
     /\ ~h_last.raised /\ ~h_last.success /\ ~h_last.asks
     /\ ~h_last.rejected) =>
        DomainFields(user_contexts[user_id]) = DomainFields(EmptyContext)

\* C16: a capability assessment whose call to the service failed returns
\* can_handle = true.
C16_AssessmentAcceptsOnFailure ==
    (call.op = "can_handle_request" /\ call.oracle.failed) => call.result

\* C18: a response that asks the user carries at most one ask_user
\* instruction.
C18_OneQuestionPerResponse ==
    (/\ call.op = "process_request" /\ ~call.result.raised
     /\ call.result.response.instructions # <<>>) =>
        Len(call.result.response.instructions) <= 1

\* C19: the question follows a fixed precedence.  topic_scout asks for the
\* field whenever the field is missing, with or without interests, and for
\* the interests only when the field is set; writing_assistant asks for the
\* outline or the target location before it asks for seed content.
C19_FixedPrecedence ==
    /\ (call.op = "_get_next_question" /\ call.agent = "topic_scout") =>
          LET question == call.result[1]
              field_q == <<"topic_scout", "What field are you studying?">>
              interests_q ==
                  <<"topic_scout", "What specific areas interest you most?">>
          IN  /\ call.context.field = "" => question = field_q
              /\ (call.context.field # "" /\ call.context.interests = <<>>)
                    => question = interests_q
              /\ question = interests_q => call.context.field # ""
    /\ (/\ call.op = "process_request" /\ call.agent = "writing_assistant"
        /\ ~call.result.raised
        /\ call.result.response.instructions # <<>>) =>
          LET w == call.oracle.found[1]
              question == call.result.response.user_message[2]
              outline == call.result.context.latest_outline # ""
          IN  /\ ~outline =>
                    question \in {"I am forwarding to the outline creation",
                                  "I need a target in your thesis"}
              /\ (outline /\ ~w.target) =>
                    question = "Which section should I write for?"
              /\ question = "Please send keywords or a draft" =>
                    (outline /\ w.target /\ ~w.seeds)

\* topic_scout is asked with interests but no field and asks for the field
C19_Witness ==
    /\ call.op = "_get_next_question" /\ call.agent = "topic_scout"
    /\ call.context.field = "" /\ call.context.interests # <<>>
    /\ call.result[1] = <<"topic_scout", "What field are you studying?">>

\* C20: next_question is deterministic: two calls with the same context
\* return the same question.
C20_NextQuestionDeterministic ==
    call.op = "_get_next_question" => call.result[1] = call.result[2]

\* C21: has_enough_info is monotonic: when it is true for a context, it is
\* true for every context that keeps the set fields and adds others.
C21_HasEnoughInfoMonotonic ==
    (call.op = "_has_enough_info" /\ call.result[1]) => call.result[2]

\* C22: topic_scout returns success with topics only if the context after
\* the extraction has a field and an interest; otherwise, when it accepts
\* the request, it returns one ask_user clarification and no topics.
C22_TopicsNeedFieldAndInterest ==
    (call.op = "process_request" /\ call.agent = "topic_scout") =>
        LET t == call.oracle.found[1]
            after == TopicScout_update_context_from_input(t.ex,
                                                          call.context).context
            enough == after.field # "" /\ after.interests # <<>>
            response == call.result.response
        IN  /\ ~call.result.raised
            /\ response.success =>
                  (enough /\ response.user_message = <<"topic_scout", "topics">>)
            /\ (~enough /\ YesNoCanHandle(t.reply)) =>
                  /\ ~response.success
                  /\ response.instructions = <<"ask_user">>
                  /\ response.user_message # <<"topic_scout", "topics">>

\* topics are returned for a field and an interest found in the input
C22_Witness ==
    /\ call.op = "process_request" /\ call.agent = "topic_scout"
    /\ call.context.field = "" /\ call.context.interests = <<>>
    /\ call.oracle.found[1].ex.field # ""
    /\ call.oracle.found[1].ex.interests # <<>>
    /\ call.result.response.success

\* C23: writing_assistant drafts and saves a passage only when an outline
\* exists already (in the context or in the store), the target is resolved
\* and the seed content is not empty; otherwise it asks the user.
C23_DraftNeedsOutlineTargetSeeds ==
    (/\ call.op = "process_request" /\ call.agent = "writing_assistant"
     /\ call.oracle.found[1].style_cmd = "none" /\ ~call.result.raised) =>
        LET w == call.oracle.found[1]
            response == call.result.response
            ready == /\ \/ call.context.latest_outline # ""
                        \/ call.oracle.storage # ""
                     /\ w.target /\ w.seeds
        IN  /\ response.success => ready
            /\ ~ready => response.instructions = <<"ask_user">>

\* the first turn of a session has ended after one invocation, of
\* topic_scout, whose extraction found no field in the message
FirstTopicRequestWithoutField ==
    /\ TurnEnded /\ turns = 1 /\ h_count = 1
    /\ h_last.agent = "topic_scout" /\ ~h_last.extracted.field

\* the turn ended with topic_scout's question for the field, and the
\* stored context names topic_scout and the user's message as pending
EndedAskingForField ==
    /\ h_end = "END"
    /\ h_last.asks /\ ~h_last.success
    /\ returned = h_last.user_message
    /\ TopicScout_get_next_question(user_contexts[user_id])
          = <<"topic_scout", "What field are you studying?">>
    /\ Stored = [agent |-> "topic_scout", request |-> query]

\* C24: from an empty session context, a request routed to topic_scout
\* from which no field is extracted ends the turn with the question for
\* the field, pending_agent = topic_scout and pending_request = the
\* user's message.
C24_FirstTopicRequestAsksField ==
    FirstTopicRequestWithoutField => EndedAskingForField

\* C24, amended: the same, when topic_scout's capability assessment
\* accepts the request.
C24_AcceptedTopicRequestAsksField ==
    (FirstTopicRequestWithoutField /\ ~h_last.rejected) => EndedAskingForField

\* interests but no field were found in the first message
C24_Witness ==
    /\ FirstTopicRequestWithoutField /\ ~h_last.rejected
    /\ h_last.extracted.interests
    /\ query = <<"hello">>
    /\ EndedAskingForField

\* the third turn of a session: topic_scout asked for the field in the
\* first turn and, given the field, for the interests in the second; it
\* has now been resumed, accepted the reply and extracted interests from it
ThirdTurnOfTopicClarification ==
    /\ turns = 3 /\ h_count = 1 /\ Len(h_chain) = 3
    /\ h_last.agent = "topic_scout"
    /\ h_chain[2].context.pending_agent = "topic_scout"
    /\ h_chain[2].context.field = ""
    /\ h_chain[3].context.pending_agent = "topic_scout"
    /\ h_chain[3].context.field # ""
    /\ h_chain[3].context.interests = <<>>
    /\ ~h_last.rejected
    /\ h_last.extracted.interests /\ ~h_last.extracted.field

\* C25: multi-turn clarification completes: the field given in turn 2 is
\* still in the context in turn 3, and topic_scout reaches the topic
\* generation in turn 3 without asking again.
C25_ClarificationCompletes ==
    ThirdTurnOfTopicClarification =>
        /\ context.field = h_chain[3].context.field
        /\ ~h_last.asks
        /\ h_last.user_message \in {<<"result">>, <<"failure">>}

\* the third turn returns topics
C25_Witness ==
    /\ ThirdTurnOfTopicClarification
    /\ TurnEnded /\ h_last.success
    /\ user_contexts[user_id].field = "CS"
    /\ user_contexts[user_id].interests = <<"AI">>

\* text holds the texts of parts one after the other, in their order
RECURSIVE ContainsInOrder(_, _)
ContainsInOrder(text, parts) ==
    IF parts = <<>> THEN TRUE
    ELSE LET part == Head(parts)
         IN  \E i \in 0..(Len(text) - Len(part)) :
                /\ SubSeq(text, i + 1, i + Len(part)) = part
                /\ ContainsInOrder(SubSeq(text, i + Len(part) + 1, Len(text)),
                                   Tail(parts))

\* the user's messages of the running clarification chain
ChainMessages == [k \in 1..Len(h_chain) |-> h_chain[k].message]

\* the pending handler of the chain has been resumed in this turn
ResumedInChain ==
    /\ h_count = 1 /\ h_last.agent # "" /\ Len(h_chain) >= 2
    /\ h_last.agent = h_chain[Len(h_chain)].context.pending_agent

\* C26: the original request is never lost in a clarification chain: the
\* input handed to the handler on its k-th resumption contains the
\* original request and every reply of the user since, in order.
C26_ChainKeepsRequest ==
    ResumedInChain => ContainsInOrder(h_last.input, ChainMessages)

\* text is an enriched input
IsEnriched(text) == text # <<>> /\ text[1] = "Original request:"

\* C27: enriched_input is empty in the stored context at every turn
\* boundary, and within a turn one handler invocation reads it: a second
\* handler invoked in the turn never receives it.
C27_EnrichedInputTransient ==
    /\ pc = "idle" =>
          \A u \in DOMAIN user_contexts :
              user_contexts[u].enriched_input = <<>>
    /\ (h_count >= 2 /\ h_last.agent # "") => ~IsEnriched(h_last.input)
    /\ context.enriched_input # <<>> => (pc \in Handlers /\ h_count = 0)

\* a resumed handler has read the enriched input and the turn has ended
C27_Witness ==
    /\ TurnEnded /\ turns = 2 /\ h_count = 1
    /\ h_last.input = Enrich(<<"hello">>, <<"review">>)
    /\ user_contexts[user_id].enriched_input = <<>>

\* C28: merging a handler's updated_context is a delta: the session fields
\* the handler did not change keep their values.  topic_scout and
\* research_agent change neither the working title nor the outline.
C28_MergeIsDelta ==
    [][ (pc \in {"topic_scout", "research_agent"} /\ pc' = "supervisor") =>
            /\ context'.working_title = context.working_title
            /\ context'.latest_outline = context.latest_outline ]_vars

\* the contents the files of the store hold
StoreContents ==
    UNION { { files[p][i] : i \in 1..Len(files[p]) } : p \in DOMAIN files }

\* C29: persisting an artifact never destroys earlier content: after any
\* sequence of save_passage and save_outline calls, what every earlier call
\* wrote is still in the store.
C29_SavesKeepEarlierContent ==
    h_written \subseteq StoreContents

\* two run() calls that are under way have both taken up the pending
\* request of the same question
BothResumeSamePending ==
    \E t, u \in Threads :
        /\ t # u
        /\ runs[t].pc # "idle"
        /\ runs[u].pc # "idle"
        /\ runs[t].resumed # 0
        /\ runs[t].resumed = runs[u].resumed

\* C30: turns of one session are serialized: two run() calls for the same
\* key that overlap never both resume the same pending request, and neither
\* stores a stale context over the one the other stored.
C30_TurnsSerialized ==
    /\ ~BothResumeSamePending
    /\ ~h_stale

\* the context stored under key b (the empty one when the key is absent);
\* contexts is user_contexts or its value after a step
StoredFor(contexts, b) ==
    IF b \in DOMAIN contexts THEN [present |-> TRUE, context |-> contexts[b]]
    ELSE [present |-> FALSE, context |-> EmptyContext]

\* C31: sessions are independent: no step of a turn for session key A
\* changes what is stored under another key B, its pending_agent and
\* pending_request included.
C31_SessionsIndependent ==
    [][ \A b \in SessionKeys :
          b # user_id' =>
              StoredFor(user_contexts', b) = StoredFor(user_contexts, b) ]_vars

\* a turn for A has answered and returned while B is waiting for a reply
C31_Witness ==
    /\ TurnEnded
    /\ user_id = "A"
    /\ h_count > 0
    /\ "B" \in DOMAIN user_contexts
    /\ user_contexts["B"].pending_agent # ""
    /\ user_contexts["A"] # user_contexts["B"]

\* C32: whenever research_agent accepts a request but decides on its
\* assessment (confidence below 0.7, or missing_info) that it needs more
\* information, its response carries an ask_user instruction.
C32_ResearchNeedsInfoAsks ==
    (/\ call.op = "process_request"
     /\ call.agent = "research_agent"
     /\ ~call.result.raised
     /\ call.result.response.capability_assessment = "can handle") =>
        \E k \in 1..Len(call.result.response.instructions) :
            call.result.response.instructions[k] = "ask_user"

\* the latest handler of the running turn answered with an ask_user
\* instruction
AskedUser == h_count > 0 /\ ~h_last.raised /\ h_last.asks

\* C33: after a handler response with an ask_user instruction the
\* supervisor ends the turn at once: its next step goes to END without a
\* classifier call, and no further handler is invoked in the turn.
C33_AskEndsTurnAtOnce ==
    [][ /\ (AskedUser /\ pc = "supervisor") =>
              (pc' = "END" /\ h_consulted' = h_consulted)
        /\ (AskedUser /\ pc \in {"supervisor", "END"}) =>
              h_count' = h_count ]_vars

\* a resumed handler asked again and the supervisor ended the turn; the
\* classifier was not called in the turn
C33_Witness ==
    /\ pc = "END"
    /\ AskedUser
    /\ h_count = 1
    /\ ~h_consulted
    /\ h_last.input # query

\* C34: when writing_assistant receives a "create outline" request and no
\* outline exists, it hands off to the structure handler: the context its
\* node returns, which the turn stores, has pending_agent = structure_agent.
C34_CreateOutlineHandsOff ==
    (/\ call.op = "node"
     /\ call.agent = "writing_assistant"
     /\ call.oracle.found[1].style_cmd = "none"
     /\ call.oracle.found[1].create_outline
     /\ call.context.latest_outline = ""
     /\ call.oracle.storage = "") =>
        call.result.context.pending_agent = "structure_agent"

\* C35: after structure_agent returned success with an outline, the context
\* stored at the end of that turn and of every later turn of the session
\* has the outline, and so has the context that writing_assistant is
\* invoked with, whichever handlers ran in between.
C35_OutlineStays ==
    h_outlined =>
        /\ TurnEnded => user_contexts[user_id].latest_outline = "outline"
        /\ pc = "writing_assistant" => context.latest_outline = "outline"

\* C36: in every reachable state pending_agent is empty or one of the five
\* handler node names, and every value the supervisor passes to the
\* conditional edge is one of those names or END; here for run() calls in
\* the executor's threads, where the value passed is the pending_agent read
\* at line 161.
C36_EdgesDefined ==
    /\ \A i \in 1..Len(objs) :
          objs[i].context.pending_agent \in Handlers \cup {""}
    /\ \A t \in Threads :
          /\ runs[t].pc \in Handlers \cup
                {"idle", "supervisor", "enrich", "clear", "END"}
          /\ runs[t].pc = "clear" => runs[t].pending_agent \in Handlers

\* new keeps what old knows of the user: a field when old has one, and
\* every interest of old
KeepsFieldAndInterests(old, new) ==
    /\ old.field # "" => new.field # ""
    /\ \A k \in 1..Len(old.interests) :
          \E j \in 1..Len(new.interests) :
              new.interests[j] = old.interests[k]

\* C37: across the turns of a session the field and the interests never go
\* from non-empty to empty: no step takes the field or an interest out of
\* the stored context or out of the context of the running turn.
C37_FieldAndInterestsStay ==
    [][ /\ \A u \in DOMAIN user_contexts :
              KeepsFieldAndInterests(user_contexts[u], user_contexts'[u])
        /\ pc # "idle" => KeepsFieldAndInterests(context, context') ]_vars

\* topic_scout has added an interest to a session that had a field: the
\* stored context is the one of the turn's start, the turn's the new one
C37_Witness ==
    /\ pc = "supervisor"
    /\ h_count = 1
    /\ h_last.agent = "topic_scout"
    /\ h_last.replaced
    /\ user_id \in DOMAIN user_contexts
    /\ user_contexts[user_id].field = "CS"
    /\ user_contexts[user_id].interests = <<>>
    /\ context.field = "CS"
    /\ context.interests = <<"AI">>

\* C38: a handler that rejects a request at its capability assessment
\* leaves the session context as it was before it was invoked: the context
\* object holds what it held, and the response brings no other context.
C38_RejectionLeavesContext ==
    (/\ call.op = "process_request"
     /\ ~call.result.raised
     /\ call.result.response.capability_assessment = "cannot handle") =>
        /\ call.result.context = call.context
        /\ call.result.response.updated_context = "new" =>
              call.result.response.new_context = call.context

\* C39: when turns of two sessions interleave on one Orchestrator, the
\* research_summaries stored in a session's context after a successful
\* research turn are built from the papers collected for that session's
\* own request.
C39_SummariesFromOwnPapers ==
    \A s \in SessionKeys :
        (research[s].pc = "done" /\ research[s].success) =>
            summaries[s] = SummariesOf(research[s].result)

====
